---- MODULE Spec2Model ----
(***************************************************************************)
(* A model of the model_parser crate of HueGraphics: the sampling          *)
(* configuration (config.rs), the sampling engine (parser.rs), the point   *)
(* cloud aggregate and its JSON form (point_cloud.rs) and the EPT tile     *)
(* writer (ept.rs).                                                        *)
(*                                                                         *)
(* Numbers.  An f32/f64 is a fixed-point integer in units of 1/ONE, or the *)
(* value NaN.  Arithmetic on finite values is exact up to the unit;        *)
(* comparisons with NaN are false, as in IEEE 754.                         *)
(***************************************************************************)
EXTENDS Integers, Sequences, FiniteSets, TLC

VARIABLES
    config,     \* the PointCloudConfig being built / used
    mesh,       \* the geometry buffer handed to generate_point_cloud
    gen,        \* the outcome of generate_point_cloud
    cloud,      \* the PointCloud aggregate
    disk,       \* the JSON document written by save_to_file
    loaded,     \* the result of load_from_file
    builder,    \* the EptBuilder
    fs,         \* the output directory of EptBuilder::build
    document,   \* the primitives of the imported glTF document not yet read
    select,     \* one pass of the triangle selection loop
    octree,     \* an OctreeKey and the outcome of children() on it
    pc          \* the position of the running operation

vars == <<config, mesh, gen, cloud, disk, loaded, builder, fs, document, select, octree, pc>>

----------------------------------------------------------------------------
(* f32 values *)

ONE == 10 * 10 * 10

NaN == 0 - (ONE * ONE * ONE)

IsNaN(x) == x = NaN

FLt(a, b) == ~IsNaN(a) /\ ~IsNaN(b) /\ a < b
FLe(a, b) == ~IsNaN(a) /\ ~IsNaN(b) /\ a <= b
FGt(a, b) == FLt(b, a)

FAdd(a, b) == IF IsNaN(a) \/ IsNaN(b) THEN NaN ELSE a + b
FSub(a, b) == IF IsNaN(a) \/ IsNaN(b) THEN NaN ELSE a - b
FMul(a, b) == IF IsNaN(a) \/ IsNaN(b) THEN NaN ELSE (a * b) \div ONE

\* f32::clamp: "if self < min { self = min } if self > max { self = max }";
\* a NaN self fails both comparisons and is returned as it is.
F32Clamp(x, lo, hi) ==
    LET a == IF FLt(x, lo) THEN lo ELSE x
    IN  IF FGt(a, hi) THEN hi ELSE a

RECURSIVE ISqrt(_)
ISqrt(n) ==
    IF n < 2 THEN n
    ELSE LET s == 2 * ISqrt(n \div 4)
         IN  IF (s + 1) * (s + 1) <= n THEN s + 1 ELSE s

\* f32::sqrt of a non-negative finite value
FSqrt(x) == IF IsNaN(x) THEN NaN ELSE ISqrt(x * ONE)

----------------------------------------------------------------------------
(* config.rs *)

Strategies == {"Uniform", "AreaWeighted", "Vertices"}

DefaultPointCount == 2000

MaxCount == 2

PointCounts == 0 .. MaxCount

Scales == {ONE, 2 * ONE}

\* arguments tried for with_scale and with_jitter
ScaleArgs == Scales \cup {0 - ONE, NaN}
JitterArgs == {0 - (ONE \div 2), 0, ONE \div 2, ONE, ONE + (ONE \div 2), NaN}

ConfigDefault ==
    [ point_count       |-> DefaultPointCount,
      sampling_strategy |-> "AreaWeighted",
      include_normals   |-> TRUE,
      include_colors    |-> TRUE,
      scale             |-> ONE,
      jitter            |-> 0 ]

ConfigNew(point_count) == [ConfigDefault EXCEPT !.point_count = point_count]

with_strategy(self, strategy) == [self EXCEPT !.sampling_strategy = strategy]

with_normals(self, include) == [self EXCEPT !.include_normals = include]

with_colors(self, include) == [self EXCEPT !.include_colors = include]

with_scale(self, scale) == [self EXCEPT !.scale = scale]

with_jitter(self, jitter) == [self EXCEPT !.jitter = F32Clamp(jitter, 0, ONE)]

----------------------------------------------------------------------------
(* glam::Vec3 *)

Vec3(x, y, z) == <<x, y, z>>

VZero == Vec3(0, 0, 0)

VAdd(a, b) == Vec3(FAdd(a[1], b[1]), FAdd(a[2], b[2]), FAdd(a[3], b[3]))
VSub(a, b) == Vec3(FSub(a[1], b[1]), FSub(a[2], b[2]), FSub(a[3], b[3]))

\* Vec3 * f32
VScale(a, s) == Vec3(FMul(a[1], s), FMul(a[2], s), FMul(a[3], s))

VCross(a, b) ==
    Vec3(FSub(FMul(a[2], b[3]), FMul(b[2], a[3])),
         FSub(FMul(a[3], b[1]), FMul(b[3], a[1])),
         FSub(FMul(a[1], b[2]), FMul(b[1], a[2])))

VLength(a) == ISqrt(a[1] * a[1] + a[2] * a[2] + a[3] * a[3])

\* Vec3::normalize is self * (1 / length): a zero vector gives 0 * inf = NaN
VNormalize(a) ==
    IF VLength(a) = 0 THEN Vec3(NaN, NaN, NaN)
    ELSE VScale(a, (ONE * ONE) \div VLength(a))

FMin(a, b) == IF a <= b THEN a ELSE b
FMax(a, b) == IF a >= b THEN a ELSE b

VMin(a, b) == Vec3(FMin(a[1], b[1]), FMin(a[2], b[2]), FMin(a[3], b[3]))
VMax(a, b) == Vec3(FMax(a[1], b[1]), FMax(a[2], b[2]), FMax(a[3], b[3]))

----------------------------------------------------------------------------
(* point_cloud.rs: Point.  An Option<[f32; 3]> is <<>> (None) or a triple. *)

None == <<>>

IsSome(o) == o # None

PointNew(position) == [position |-> position, normal |-> None, color |-> None]

PointWithNormal(self, normal) == [self EXCEPT !.normal = normal]

PointWithColor(self, color) == [self EXCEPT !.color = color]

----------------------------------------------------------------------------
(* parser.rs: parse_gltf.  What a primitive's reader gives for an          *)
(* attribute is [some |-> FALSE] or [some |-> TRUE, v |-> the values].     *)

NotRead == [some |-> FALSE]

ReadAs(v) == [some |-> TRUE, v |-> v]

\* Vec::resize(new_len, value)
Resize(arr, new_len, value) ==
    IF new_len <= Len(arr) THEN SubSeq(arr, 1, new_len)
    ELSE arr \o [i \in 1 .. (new_len - Len(arr)) |-> value]

\* ReadInto with the indices appended as the primitive gives them
ReadIntoNoOffset(all, primitive, cfg) ==
    IF ~primitive.positions.some THEN all
    ELSE LET vertices == all.vertices \o primitive.positions.v
         IN  [ vertices |-> vertices,
               normals  |-> IF cfg.include_normals
                            THEN IF primitive.normals.some
                                 THEN all.normals \o primitive.normals.v
                                 ELSE Resize(all.normals, Len(vertices), VZero)
                            ELSE all.normals,
               colors   |-> IF cfg.include_colors
                            THEN IF primitive.colors.some
                                 THEN all.colors \o primitive.colors.v
                                 ELSE Resize(all.colors, Len(vertices), Vec3(ONE, ONE, ONE))
                            ELSE all.colors,
               indices  |-> IF primitive.indices.some
                            THEN all.indices \o primitive.indices.v
                            ELSE all.indices ]

\* lines 41-72: one primitive read into all_vertices, all_normals, all_colors
\* and all_indices
ReadInto(all, primitive, cfg) ==
    IF ~primitive.positions.some THEN all
    ELSE LET base_index == Len(all.vertices)
             vertices   == all.vertices \o primitive.positions.v
         IN  [ vertices |-> vertices,
               normals  |-> IF cfg.include_normals
                            THEN IF primitive.normals.some
                                 THEN all.normals \o primitive.normals.v
                                 ELSE Resize(all.normals, Len(vertices), VZero)
                            ELSE all.normals,
               colors   |-> IF cfg.include_colors
                            THEN IF primitive.colors.some
                                 THEN all.colors \o primitive.colors.v
                                 ELSE Resize(all.colors, Len(vertices), Vec3(ONE, ONE, ONE))
                            ELSE all.colors,
               indices  |-> IF primitive.indices.some
                            THEN all.indices \o
                                 [k \in 1 .. Len(primitive.indices.v) |->
                                     primitive.indices.v[k] + base_index]
                            ELSE all.indices ]

----------------------------------------------------------------------------
(* parser.rs: generate_point_cloud *)

Min2(a, b) == IF a <= b THEN a ELSE b

\* indices.chunks(3): the last chunk holds the 1 or 2 indices left over
Chunks3(indices) ==
    [t \in 1 .. ((Len(indices) + 2) \div 3) |->
        SubSeq(indices, 3 * (t - 1) + 1, Min2(3 * t, Len(indices)))]

\* vertices[i] for a 0-based index i
At(arr, i) == arr[i + 1]

TriangleArea(tri, vertices) ==
    IF Len(tri) = 3
    THEN LET v0 == At(vertices, tri[1])
             v1 == At(vertices, tri[2])
             v2 == At(vertices, tri[3])
         IN  FMul(VLength(VCross(VSub(v1, v0), VSub(v2, v0))), ONE \div 2)
    ELSE 0

\* triangle_weights: the area under AreaWeighted, vec![1.0; triangles.len()]
\* otherwise
TriangleWeights(triangles, vertices, strategy) ==
    IF strategy = "AreaWeighted"
    THEN [t \in 1 .. Len(triangles) |-> TriangleArea(triangles[t], vertices)]
    ELSE [t \in 1 .. Len(triangles) |-> ONE]

RECURSIVE SumSeq(_)
SumSeq(s) == IF s = <<>> THEN 0 ELSE Head(s) + SumSeq(Tail(s))

\* the scan stopping only where the running remainder is below 0
RECURSIVE ScanWeightsStrict(_, _, _)
ScanWeightsStrict(weights, i, weight_select) ==
    IF i > Len(weights) THEN 0
    ELSE IF weight_select - weights[i] < 0 THEN i - 1
    ELSE ScanWeightsStrict(weights, i + 1, weight_select - weights[i])

\* the scan of lines 165-173: the 0-based index of the first triangle at which
\* the running remainder is <= 0, and 0 when there is none
RECURSIVE ScanWeights(_, _, _)
ScanWeights(weights, i, weight_select) ==
    IF i > Len(weights) THEN 0
    ELSE IF weight_select - weights[i] <= 0 THEN i - 1
    ELSE ScanWeights(weights, i + 1, weight_select - weights[i])

SelectTriangle(weights, u) == ScanWeights(weights, 1, FMul(u, SumSeq(weights)))

\* rng.gen_range(lo..hi) from the uniform draw u in [0, 1)
GenRange(lo, hi, u) == lo + FMul(hi - lo, u)

\* "Apply jitter": nothing is drawn and nothing is added unless jitter > 0
ApplyJitter(pos, jitter, noise) ==
    IF FGt(jitter, 0)
    THEN LET jitter_amount == FMul(jitter, ONE \div 10)
         IN  Vec3(pos[1] + GenRange(0 - jitter_amount, jitter_amount, noise[1]),
                  pos[2] + GenRange(0 - jitter_amount, jitter_amount, noise[2]),
                  pos[3] + GenRange(0 - jitter_amount, jitter_amount, noise[3]))
    ELSE pos

Blend(x0, x1, x2, a, b, c) == VAdd(VAdd(VScale(x0, a), VScale(x1, b)), VScale(x2, c))

\* SampleTriangle with the position scaled first and jittered afterwards
SampleTriangleScaleFirst(tri, m, cfg, d) ==
    LET r1 == FSqrt(d.bary[1])
        r2 == d.bary[2]
        a  == ONE - r1
        b  == FMul(r1, ONE - r2)
        c  == FMul(r1, r2)
        pos == Blend(At(m.vertices, tri[1]), At(m.vertices, tri[2]),
                     At(m.vertices, tri[3]), a, b, c)
        p0 == PointNew(ApplyJitter(VScale(pos, cfg.scale), cfg.jitter, d.noise))
        p1 == IF m.normals # <<>> /\ cfg.include_normals
              THEN PointWithNormal(p0,
                       VNormalize(Blend(At(m.normals, tri[1]), At(m.normals, tri[2]),
                                        At(m.normals, tri[3]), a, b, c)))
              ELSE p0
    IN  IF m.colors # <<>> /\ cfg.include_colors
        THEN PointWithColor(p1,
                 Blend(At(m.colors, tri[1]), At(m.colors, tri[2]),
                       At(m.colors, tri[3]), a, b, c))
        ELSE p1

\* lines 180-218: the point sampled inside the full triangle tri
SampleTriangle(tri, m, cfg, d) ==
    LET r1 == FSqrt(d.bary[1])
        r2 == d.bary[2]
        a  == ONE - r1
        b  == FMul(r1, ONE - r2)
        c  == FMul(r1, r2)
        pos == Blend(At(m.vertices, tri[1]), At(m.vertices, tri[2]),
                     At(m.vertices, tri[3]), a, b, c)
        p0 == PointNew(VScale(ApplyJitter(pos, cfg.jitter, d.noise), cfg.scale))
        p1 == IF m.normals # <<>> /\ cfg.include_normals
              THEN PointWithNormal(p0,
                       VNormalize(Blend(At(m.normals, tri[1]), At(m.normals, tri[2]),
                                        At(m.normals, tri[3]), a, b, c)))
              ELSE p0
    IN  IF m.colors # <<>> /\ cfg.include_colors
        THEN PointWithColor(p1,
                 Blend(At(m.colors, tri[1]), At(m.colors, tri[2]),
                       At(m.colors, tri[3]), a, b, c))
        ELSE p1

\* lines 162-221: one iteration per draw; an iteration whose selected chunk is
\* not a full triangle pushes nothing ("continue")
RECURSIVE TriangleLoop(_, _, _, _, _)
TriangleLoop(triangles, weights, m, cfg, draws) ==
    IF draws = <<>> THEN <<>>
    ELSE LET tri == At(triangles, SelectTriangle(weights, Head(draws).sel))
         IN  (IF Len(tri) # 3 THEN <<>>
              ELSE <<SampleTriangle(tri, m, cfg, Head(draws))>>)
             \o TriangleLoop(triangles, weights, m, cfg, Tail(draws))

\* lines 133-221, indices.len() >= 3
SampleTriangles(m, cfg, draws) ==
    LET triangles == Chunks3(m.indices)
        weights   == TriangleWeights(triangles, m.vertices, cfg.sampling_strategy)
    IN  TriangleLoop(triangles, weights, m, cfg, draws)

\* SampleVertex with the attributes read at index 0 instead of idx
SampleVertexAttrsOfFirst(m, cfg, d) ==
    LET p0 == PointNew(VScale(ApplyJitter(At(m.vertices, d.idx), cfg.jitter, d.noise),
                              cfg.scale))
        p1 == IF m.normals # <<>> /\ cfg.include_normals
              THEN PointWithNormal(p0, At(m.normals, 0))
              ELSE p0
    IN  IF m.colors # <<>> /\ cfg.include_colors
        THEN PointWithColor(p1, At(m.colors, 0))
        ELSE p1

\* lines 225-247: the point built from the vertex drawn
SampleVertex(m, cfg, d) ==
    LET idx == d.idx
        p0 == PointNew(VScale(ApplyJitter(At(m.vertices, idx), cfg.jitter, d.noise),
                              cfg.scale))
        p1 == IF m.normals # <<>> /\ cfg.include_normals /\ idx < Len(m.normals)
              THEN PointWithNormal(p0, At(m.normals, idx))
              ELSE p0
    IN  IF m.colors # <<>> /\ cfg.include_colors /\ idx < Len(m.colors)
        THEN PointWithColor(p1, At(m.colors, idx))
        ELSE p1

\* lines 222-249, indices.len() < 3
SampleFallback(m, cfg, draws) ==
    [k \in 1 .. Len(draws) |-> SampleVertex(m, cfg, draws[k])]

\* lines 116-129: the point of vertex i (0-based)
VertexPoint(m, cfg, i) ==
    LET p0 == PointNew(VScale(At(m.vertices, i), cfg.scale))
        p1 == IF m.normals # <<>> /\ cfg.include_normals /\ i < Len(m.normals)
              THEN PointWithNormal(p0, At(m.normals, i))
              ELSE p0
    IN  IF m.colors # <<>> /\ cfg.include_colors /\ i < Len(m.colors)
        THEN PointWithColor(p1, At(m.colors, i))
        ELSE p1

\* SampleVertices without take(point_count)
SampleVerticesNoTake(m, cfg) ==
    [k \in 1 .. Len(m.vertices) |-> VertexPoint(m, cfg, k - 1)]

\* lines 110-131: vertices.iter().take(point_count).enumerate().map(..)
SampleVertices(m, cfg) ==
    [k \in 1 .. Min2(cfg.point_count, Len(m.vertices)) |-> VertexPoint(m, cfg, k - 1)]

----------------------------------------------------------------------------
(* point_cloud.rs: PointCloud *)

\* calculate_bounds with the scan started from the origin instead of points[0]
RECURSIVE BoundsFromOrigin(_)
BoundsFromOrigin(points) ==
    IF points = <<>> THEN <<VZero, VZero>>
    ELSE LET rest == BoundsFromOrigin(Tail(points))
         IN  <<VMin(rest[1], Head(points).position),
               VMax(rest[2], Head(points).position)>>

RECURSIVE ScanBounds(_, _, _, _)
ScanBounds(points, i, min, max) ==
    IF i > Len(points) THEN <<min, max>>
    ELSE ScanBounds(points, i + 1, VMin(min, points[i].position),
                    VMax(max, points[i].position))

\* PointCloud::calculate_bounds
calculate_bounds(points) ==
    IF points = <<>> THEN <<VZero, VZero>>
    ELSE ScanBounds(points, 2, points[1].position, points[1].position)

\* PointCloud::new
PointCloud_new(points, source_file) ==
    LET bounds == calculate_bounds(points)
    IN  [ built    |-> TRUE,
          points   |-> points,
          metadata |->
            [ point_count |-> Len(points),
              bounds_min  |-> bounds[1],
              bounds_max  |-> bounds[2],
              source_file |-> source_file,
              has_normals |-> \E i \in 1 .. Len(points) : IsSome(points[i].normal),
              has_colors  |-> \E i \in 1 .. Len(points) : IsSome(points[i].color) ] ]

(* serde_json.  A JSON value is [t, v, items]: a number (v), null, a       *)
(* string or boolean (v), or an array (items).  An object is a function    *)
(* from the keys it holds to values.                                       *)

JNull == [t |-> "null", v |-> 0, items |-> <<>>]
JScalar(t, v) == [t |-> t, v |-> v, items |-> <<>>]
JArray(items) == [t |-> "array", v |-> 0, items |-> items]

\* serialize_f32: a NaN (or an infinity) is written as null; a finite value is
\* written in the shortest decimal form that reads back as the same f32
SerializeF32(x) == IF IsNaN(x) THEN JNull ELSE JScalar("number", x)

SerializeVec(a) == JArray([i \in 1 .. 3 |-> SerializeF32(a[i])])

\* #[serde(skip_serializing_if = "Option::is_none")] on normal and color
SerializePoint(p) ==
    LET keys == {"position"}
                \cup (IF IsSome(p.normal) THEN {"normal"} ELSE {})
                \cup (IF IsSome(p.color) THEN {"color"} ELSE {})
    IN  [k \in keys |->
            CASE k = "position" -> SerializeVec(p.position)
              [] k = "normal"   -> SerializeVec(p.normal)
              [] OTHER          -> SerializeVec(p.color)]

SerializeMetadata(md) ==
    [ point_count |-> JScalar("number", md.point_count),
      bounds_min  |-> SerializeVec(md.bounds_min),
      bounds_max  |-> SerializeVec(md.bounds_max),
      source_file |-> JScalar("string", md.source_file),
      has_normals |-> JScalar("bool", md.has_normals),
      has_colors  |-> JScalar("bool", md.has_colors) ]

\* serde_json::to_string_pretty(self)
SerializeCloud(c) ==
    [ points   |-> [i \in 1 .. Len(c.points) |-> SerializePoint(c.points[i])],
      metadata |-> SerializeMetadata(c.metadata) ]

\* an [f32; 3] reads from an array of exactly three numbers
VecReads(j) ==
    /\ j.t = "array"
    /\ Len(j.items) = 3
    /\ \A i \in 1 .. 3 : j.items[i].t = "number"

DeserializeVec(j) == [i \in 1 .. 3 |-> j.items[i].v]

\* an Option<[f32; 3]> field: a missing key and a null both read as None
OptionReads(obj, key) ==
    key \in DOMAIN obj => (obj[key].t = "null" \/ VecReads(obj[key]))

DeserializeOption(obj, key) ==
    IF key \in DOMAIN obj /\ obj[key].t # "null"
    THEN DeserializeVec(obj[key]) ELSE None

PointReads(obj) ==
    /\ "position" \in DOMAIN obj
    /\ VecReads(obj["position"])
    /\ OptionReads(obj, "normal")
    /\ OptionReads(obj, "color")

DeserializePoint(obj) ==
    [ position |-> DeserializeVec(obj["position"]),
      normal   |-> DeserializeOption(obj, "normal"),
      color    |-> DeserializeOption(obj, "color") ]

MetadataReads(obj) ==
    /\ obj.point_count.t = "number"
    /\ obj.point_count.v >= 0
    /\ VecReads(obj.bounds_min)
    /\ VecReads(obj.bounds_max)
    /\ obj.source_file.t = "string"
    /\ obj.has_normals.t = "bool"
    /\ obj.has_colors.t = "bool"

DeserializeMetadata(obj) ==
    [ point_count |-> obj.point_count.v,
      bounds_min  |-> DeserializeVec(obj.bounds_min),
      bounds_max  |-> DeserializeVec(obj.bounds_max),
      source_file |-> obj.source_file.v,
      has_normals |-> obj.has_normals.v,
      has_colors  |-> obj.has_colors.v ]

CloudReads(doc) ==
    /\ \A i \in 1 .. Len(doc.points) : PointReads(doc.points[i])
    /\ MetadataReads(doc.metadata)

\* serde_json::from_str: the derived Deserialize takes points and metadata as
\* the document gives them
DeserializeCloud(doc) ==
    [ built    |-> TRUE,
      points   |-> [i \in 1 .. Len(doc.points) |-> DeserializePoint(doc.points[i])],
      metadata |-> DeserializeMetadata(doc.metadata) ]

----------------------------------------------------------------------------
(* ept.rs *)

(* A u32 is the pair <<high, low>> of its two 16-bit halves, so that all 32 *)
(* bits are kept.                                                          *)

Half == 256 * 256

\* the u32 of a number below 2^31
U32(n) == <<n \div Half, n % Half>>

\* the number of a u32 below 2^31
U32ToInt(a) == a[1] * Half + a[2]

U32_MAX == <<Half - 1, Half - 1>>

\* a + 1 and a * 2 in 32 bits: the wrapped value and whether the exact
\* result is beyond u32::MAX
U32Add1(a) ==
    LET lo == a[2] + 1
        hi == a[1] + (lo \div Half)
    IN  [v |-> <<hi % Half, lo % Half>>, overflow |-> hi >= Half]

\* a * 2 with the bit leaving the low half dropped
U32Mul2NoCarry(a) ==
    [v |-> <<(2 * a[1]) % Half, (2 * a[2]) % Half>>, overflow |-> 2 * a[1] >= Half]

U32Mul2(a) ==
    LET lo == 2 * a[2]
        hi == 2 * a[1] + (lo \div Half)
    IN  [v |-> <<hi % Half, lo % Half>>, overflow |-> hi >= Half]

OctreeKey_new(depth, x, y, z) == [depth |-> depth, x |-> x, y |-> y, z |-> z]

OctreeKey_root == OctreeKey_new(U32(0), U32(0), U32(0), U32(0))

\* lines 80-83: an operation of children() leaves the range of u32
ChildrenOverflows(self) ==
    \/ U32Add1(self.depth).overflow
    \/ U32Mul2(self.x).overflow
    \/ U32Mul2(self.y).overflow
    \/ U32Mul2(self.z).overflow

\* the array of children() with the z offset changing fastest
ChildrenZFirst(self) ==
    LET d == U32Add1(self.depth).v
        x == U32Mul2(self.x).v
        y == U32Mul2(self.y).v
        z == U32Mul2(self.z).v
        x1 == U32Add1(x).v
        y1 == U32Add1(y).v
        z1 == U32Add1(z).v
    IN  << OctreeKey_new(d, x,  y,  z ),
           OctreeKey_new(d, x,  y,  z1),
           OctreeKey_new(d, x,  y1, z ),
           OctreeKey_new(d, x,  y1, z1),
           OctreeKey_new(d, x1, y,  z ),
           OctreeKey_new(d, x1, y,  z1),
           OctreeKey_new(d, x1, y1, z ),
           OctreeKey_new(d, x1, y1, z1) >>

\* OctreeKey::children, lines 79-95, when no operation panics: the array of
\* eight keys, every operation taken modulo 2^32
Children(self) ==
    LET d == U32Add1(self.depth).v
        x == U32Mul2(self.x).v
        y == U32Mul2(self.y).v
        z == U32Mul2(self.z).v
        x1 == U32Add1(x).v
        y1 == U32Add1(y).v
        z1 == U32Add1(z).v
    IN  << OctreeKey_new(d, x,  y,  z ),
           OctreeKey_new(d, x1, y,  z ),
           OctreeKey_new(d, x,  y1, z ),
           OctreeKey_new(d, x1, y1, z ),
           OctreeKey_new(d, x,  y,  z1),
           OctreeKey_new(d, x1, y,  z1),
           OctreeKey_new(d, x,  y1, z1),
           OctreeKey_new(d, x1, y1, z1) >>

\* format!("{}-{}-{}-{}", depth, x, y, z)
to_path_string(self) ==
    ToString(U32ToInt(self.depth)) \o "-" \o ToString(U32ToInt(self.x)) \o "-" \o
    ToString(U32ToInt(self.y)) \o "-" \o ToString(U32ToInt(self.z))

DefaultMaxPointsPerTile == 100000

DefaultMaxDepth == 10

EptBuilder_new ==
    [max_points_per_tile |-> DefaultMaxPointsPerTile, max_depth |-> DefaultMaxDepth]

with_max_points_per_tile(self, max_points) ==
    [self EXCEPT !.max_points_per_tile = max_points]

with_max_depth(self, depth) == [self EXCEPT !.max_depth = depth]

\* stand-ins for f32::MAX and f32::MIN: beyond every coordinate of the model
F32_MAX == ONE * ONE
F32_MIN == 0 - F32_MAX

\* a reduce identity of (0, 0) instead of (f32::MAX, f32::MIN)
ReduceIdentityZero == <<VZero, VZero>>

\* the identity closure of the reduce, line 247
ReduceIdentity == <<Vec3(F32_MAX, F32_MAX, F32_MAX), Vec3(F32_MIN, F32_MIN, F32_MIN)>>

\* the reduce operator, line 248
ReduceOp(a, b) == <<VMin(a[1], b[1]), VMax(a[2], b[2])>>

RECURSIVE FoldReduce(_, _)
FoldReduce(acc, items) ==
    IF items = <<>> THEN acc
    ELSE FoldReduce(ReduceOp(acc, Head(items)), Tail(items))

\* par_iter().map(..).reduce(identity, op): rayon cuts the slice into
\* consecutive pieces at places of its choosing, folds each piece from the
\* identity and joins neighbouring results with op.  Every result it can give.
RECURSIVE ReduceOutcomes(_)
ReduceOutcomes(items) ==
    {FoldReduce(ReduceIdentity, items)} \cup
    UNION { { ReduceOp(l, r) :
                l \in ReduceOutcomes(SubSeq(items, 1, k)),
                r \in ReduceOutcomes(SubSeq(items, k + 1, Len(items))) } :
            k \in 1 .. (Len(items) - 1) }

\* lines 251-259: the padding and the six numbers
PaddedBounds(mm) ==
    LET padding == FMul(VLength(VSub(mm[2], mm[1])), ONE \div 100)
        min == VSub(mm[1], Vec3(padding, padding, padding))
        max == VAdd(mm[2], Vec3(padding, padding, padding))
    IN  <<min[1], min[2], min[3], max[1], max[2], max[3]>>

\* EptBuilder::calculate_bounds: every value the parallel reduction can give
EptBounds(points) ==
    IF points = <<>> THEN {<<0, 0, 0, 0, 0, 0>>}
    ELSE { PaddedBounds(mm) :
             mm \in ReduceOutcomes([i \in 1 .. Len(points) |->
                                       <<points[i].position, points[i].position>>]) }

EptDimension(name, data_type, size) == [name |-> name, data_type |-> data_type, size |-> size]

\* lines 152-204
Schema(point_cloud) ==
    << EptDimension("X", "floating", 4),
       EptDimension("Y", "floating", 4),
       EptDimension("Z", "floating", 4) >>
    \o (IF point_cloud.metadata.has_colors
        THEN << EptDimension("Red", "unsigned", 1),
                EptDimension("Green", "unsigned", 1),
                EptDimension("Blue", "unsigned", 1) >>
        ELSE <<>>)
    \o (IF point_cloud.metadata.has_normals
        THEN << EptDimension("NormalX", "floating", 4),
                EptDimension("NormalY", "floating", 4),
                EptDimension("NormalZ", "floating", 4) >>
        ELSE <<>>)

SpanValue == 128

\* lines 207-222
EptMetadata(point_cloud, bounds) ==
    [ bounds            |-> bounds,
      bounds_conforming |-> bounds,
      points            |-> Len(point_cloud.points),
      schema            |-> Schema(point_cloud),
      srs               |-> [authority |-> "EPSG", horizontal |-> "4978",
                             vertical |-> "", wkt |-> ""],
      data_type         |-> "binary",
      hierarchy_type    |-> "json",
      span              |-> SpanValue,
      version           |-> "1.0.0" ]

\* serde_json::to_string_pretty(&metadata), with the serde renames
EptJson(md) ==
    [ bounds            |-> md.bounds,
      bounds_conforming |-> md.bounds_conforming,
      points            |-> md.points,
      schema            |-> [i \in 1 .. Len(md.schema) |->
                                [name |-> md.schema[i].name,
                                 type |-> md.schema[i].data_type,
                                 size |-> md.schema[i].size]],
      srs               |-> md.srs,
      dataType          |-> md.data_type,
      hierarchyType     |-> md.hierarchy_type,
      span              |-> md.span,
      version           |-> md.version ]

\* (x * 255.0) rounded to the nearest integer instead of truncated
ToU8Rounding(x) ==
    IF IsNaN(x) \/ x <= 0 THEN 0
    ELSE Min2(255, (x * 255 + (ONE \div 2)) \div ONE)

\* (x * 255.0) as u8: truncated toward zero, saturating, 0 for NaN
ToU8(x) ==
    IF IsNaN(x) \/ x <= 0 THEN 0
    ELSE Min2(255, (x * 255) \div ONE)

\* lines 279-308: the (position, color, normal) of one point
TileDatum(point, has_colors, has_normals) ==
    [ position |-> point.position,
      color    |-> IF has_colors
                   THEN IF IsSome(point.color)
                        THEN <<ToU8(point.color[1]), ToU8(point.color[2]), ToU8(point.color[3])>>
                        ELSE <<255, 255, 255>>
                   ELSE <<0, 0, 0>>,
      normal   |-> IF has_normals
                   THEN IF IsSome(point.normal) THEN point.normal ELSE <<0, 0, 0>>
                   ELSE <<0, 0, 0>> ]

\* lines 279-322: positions, Option<colors>, Option<normals>, in array order
TileData(point_cloud) ==
    LET has_colors  == point_cloud.metadata.has_colors
        has_normals == point_cloud.metadata.has_normals
        data == [i \in 1 .. Len(point_cloud.points) |->
                    TileDatum(point_cloud.points[i], has_colors, has_normals)]
    IN  [ positions |-> [i \in 1 .. Len(data) |-> data[i].position],
          colors    |-> [some |-> has_colors,
                         v |-> [i \in 1 .. Len(data) |-> data[i].color]],
          normals   |-> [some |-> has_normals,
                         v |-> [i \in 1 .. Len(data) |-> data[i].normal]] ]

\* what one write_all call appends: a little-endian f32 or one u8
F32Field(x) == [ty |-> "f32", size |-> 4, v |-> x]
U8Field(x) == [ty |-> "u8", size |-> 1, v |-> x]

\* a record whose colour bytes are left out when they are the white default
TileRecordSkippingWhite(data, i) ==
    << F32Field(data.positions[i][1]), F32Field(data.positions[i][2]),
       F32Field(data.positions[i][3]) >>
    \o (IF data.colors.some /\ data.colors.v[i] # <<255, 255, 255>>
        THEN << U8Field(data.colors.v[i][1]), U8Field(data.colors.v[i][2]),
                U8Field(data.colors.v[i][3]) >>
        ELSE <<>>)
    \o (IF data.normals.some
        THEN << F32Field(data.normals.v[i][1]), F32Field(data.normals.v[i][2]),
                F32Field(data.normals.v[i][3]) >>
        ELSE <<>>)

\* lines 351-370: the record of point i
TileRecord(data, i) ==
    << F32Field(data.positions[i][1]), F32Field(data.positions[i][2]),
       F32Field(data.positions[i][3]) >>
    \o (IF data.colors.some
        THEN << U8Field(data.colors.v[i][1]), U8Field(data.colors.v[i][2]),
                U8Field(data.colors.v[i][3]) >>
        ELSE <<>>)
    \o (IF data.normals.some
        THEN << F32Field(data.normals.v[i][1]), F32Field(data.normals.v[i][2]),
                F32Field(data.normals.v[i][3]) >>
        ELSE <<>>)

\* write_binary_tile: the records of points 1 .. n, one after the other
RECURSIVE TileBytes(_, _)
TileBytes(data, n) ==
    IF n = 0 THEN <<>> ELSE TileBytes(data, n - 1) \o TileRecord(data, n)

\* the hierarchy entry counting at most max_points_per_tile points
HierarchyCappedByTile(self, point_cloud) ==
    [k \in {to_path_string(OctreeKey_root)} |->
        Min2(Len(point_cloud.points), self.max_points_per_tile)]

\* lines 329-332: the HashMap with the root entry
Hierarchy(self, point_cloud) ==
    [k \in {to_path_string(OctreeKey_root)} |-> Len(point_cloud.points)]

\* the files build writes, relative to output_dir
EptJsonPath == "ept.json"
TilePath == "ept-data/" \o to_path_string(OctreeKey_root) \o ".bin"
HierarchyPath == "ept-hierarchy/0-0-0-0.json"
BuildDirs == <<".", "ept-data", "ept-hierarchy">>

WriteFile(files, path, content) == (path :> content) @@ files

----------------------------------------------------------------------------
(* idle values of the parts of the state a specification does not use *)

NoMesh == [vertices |-> <<>>, normals |-> <<>>, colors |-> <<>>, indices |-> <<>>]
NoGen == [path |-> "none", points |-> <<>>, rng |-> <<>>]
NoCloud == [built |-> FALSE]
NoDisk == [written |-> FALSE]
NoLoad == [state |-> "none"]
NoBuilder == [max_points_per_tile |-> 0, max_depth |-> 0]
NoFs == [dirs |-> {}, files |-> [path \in {} |-> 0]]
NoDocument == [primitives |-> <<>>, next |-> 1]
NoSelect == [state |-> "none"]
NoOctree == [state |-> "none"]

----------------------------------------------------------------------------
(* The configuration builder: PointCloudConfig::new / Default, then any    *)
(* sequence of with_X calls.                                               *)

InitConfig ==
    /\ config \in {ConfigDefault} \cup {ConfigNew(n) : n \in PointCounts}
    /\ mesh = NoMesh /\ gen = NoGen /\ cloud = NoCloud /\ disk = NoDisk
    /\ loaded = NoLoad /\ builder = NoBuilder /\ fs = NoFs
    /\ document = NoDocument /\ select = NoSelect /\ octree = NoOctree
    /\ pc = "new"

WithStrategy ==
    /\ \E s \in Strategies : config' = with_strategy(config, s)
    /\ pc' = "with_strategy"
    /\ UNCHANGED <<mesh, gen, cloud, disk, loaded, builder, fs, document, select, octree>>

WithNormals ==
    /\ \E b \in BOOLEAN : config' = with_normals(config, b)
    /\ pc' = "with_normals"
    /\ UNCHANGED <<mesh, gen, cloud, disk, loaded, builder, fs, document, select, octree>>

WithColors ==
    /\ \E b \in BOOLEAN : config' = with_colors(config, b)
    /\ pc' = "with_colors"
    /\ UNCHANGED <<mesh, gen, cloud, disk, loaded, builder, fs, document, select, octree>>

WithScale ==
    /\ \E s \in ScaleArgs : config' = with_scale(config, s)
    /\ pc' = "with_scale"
    /\ UNCHANGED <<mesh, gen, cloud, disk, loaded, builder, fs, document, select, octree>>

WithJitter ==
    /\ \E j \in JitterArgs : config' = with_jitter(config, j)
    /\ pc' = "with_jitter"
    /\ UNCHANGED <<mesh, gen, cloud, disk, loaded, builder, fs, document, select, octree>>

NextConfig == WithStrategy \/ WithNormals \/ WithColors \/ WithScale \/ WithJitter

SpecConfig == InitConfig /\ [][NextConfig]_vars

\* C7: for every configuration obtained from new/Default and with_X calls
\* with any arguments, the stored jitter satisfies 0 <= jitter <= 1.
C7_JitterInUnitInterval == FLe(0, config.jitter) /\ FLe(config.jitter, ONE)

----------------------------------------------------------------------------
(* The sampling engine: generate_point_cloud applied once to a geometry    *)
(* buffer and a configuration, with every outcome of the random source.    *)

MaxVerts == 3

MaxIdx == 5

VertexAt(i) ==
    CASE i = 0 -> Vec3(0, 0, 0)
      [] i = 1 -> Vec3(ONE, 0, 0)
      [] i = 2 -> Vec3(0, ONE, 0)
      [] OTHER -> Vec3(0, 0, (i - 1) * ONE)

\* vertex 2 carries the zero normal parse_gltf pads with
NormalAt(i) ==
    CASE i % 3 = 0 -> Vec3(0, 0, ONE)
      [] i % 3 = 1 -> Vec3(0, ONE, 0)
      [] OTHER     -> VZero

ColorAt(i) == Vec3((i % 2) * ONE, ((i + 1) % 2) * ONE, ONE \div 2)

IndexPatterns == {"cycle", "degenerate_first"}

IndexAt(pattern, k, n) ==
    IF pattern = "degenerate_first" /\ k <= 3 THEN 0 ELSE (k - 1) % n

\* all_normals: not requested, read from the file, or the zero padding of
\* parser.rs:54 for a primitive without normals
NormalKinds == {"absent", "read", "padded"}

MeshNormals(kind, n) ==
    CASE kind = "read"   -> [i \in 1 .. n |-> NormalAt(i - 1)]
      [] kind = "padded" -> [i \in 1 .. n |-> VZero]
      [] OTHER           -> <<>>

Meshes ==
    { [ vertices |-> [i \in 1 .. n |-> VertexAt(i - 1)],
        normals  |-> MeshNormals(nk, n),
        colors   |-> IF hc THEN [i \in 1 .. n |-> ColorAt(i - 1)] ELSE <<>>,
        indices  |-> [k \in 1 .. len |-> IndexAt(pat, k, n)] ] :
      n \in 1 .. MaxVerts, nk \in NormalKinds, hc \in BOOLEAN,
      len \in 0 .. MaxIdx, pat \in IndexPatterns }

Jitters == {0, ONE \div 2}

SamplingConfigs ==
    { with_jitter(with_scale(with_colors(with_normals(with_strategy(
          ConfigNew(n), st), inn), inc), sc), j) :
      n \in PointCounts, st \in Strategies, inn \in BOOLEAN, inc \in BOOLEAN,
      sc \in Scales, j \in Jitters }

\* uniform draws in [0, 1)
SelDraws == {0, ONE \div 2, ONE - 1}
BaryDraws == {<<ONE \div 4, ONE \div 2>>}
NoiseDraws(jitter) ==
    IF FGt(jitter, 0) THEN {<<(3 * ONE) \div 4, 0, ONE \div 2>>}
    ELSE {<<>>}

TriangleDraws(cfg) == [sel : SelDraws, bary : BaryDraws, noise : NoiseDraws(cfg.jitter)]

VertexDraws(m, cfg) == [idx : 0 .. (Len(m.vertices) - 1), noise : NoiseDraws(cfg.jitter)]

InitSample ==
    /\ config \in SamplingConfigs
    /\ mesh \in Meshes
    /\ gen = NoGen /\ cloud = NoCloud /\ disk = NoDisk
    /\ loaded = NoLoad /\ builder = NoBuilder /\ fs = NoFs
    /\ document = NoDocument /\ select = NoSelect /\ octree = NoOctree
    /\ pc = "parsed"

GenerateVertices ==
    /\ pc = "parsed"
    /\ config.sampling_strategy = "Vertices"
    /\ gen' = [path |-> "vertices", points |-> SampleVertices(mesh, config), rng |-> <<>>]
    /\ pc' = "generated"
    /\ UNCHANGED <<config, mesh, cloud, disk, loaded, builder, fs, document, select, octree>>

GenerateTriangles ==
    /\ pc = "parsed"
    /\ config.sampling_strategy \in {"Uniform", "AreaWeighted"}
    /\ Len(mesh.indices) >= 3
    /\ \E draws \in [1 .. config.point_count -> TriangleDraws(config)] :
          gen' = [path |-> "triangles",
                  points |-> SampleTriangles(mesh, config, draws),
                  rng |-> draws]
    /\ pc' = "generated"
    /\ UNCHANGED <<config, mesh, cloud, disk, loaded, builder, fs, document, select, octree>>

GenerateFallback ==
    /\ pc = "parsed"
    /\ config.sampling_strategy \in {"Uniform", "AreaWeighted"}
    /\ Len(mesh.indices) < 3
    /\ \E draws \in [1 .. config.point_count -> VertexDraws(mesh, config)] :
          gen' = [path |-> "fallback",
                  points |-> SampleFallback(mesh, config, draws),
                  rng |-> draws]
    /\ pc' = "generated"
    /\ UNCHANGED <<config, mesh, cloud, disk, loaded, builder, fs, document, select, octree>>

NextSample == GenerateVertices \/ GenerateTriangles \/ GenerateFallback

SpecSample == InitSample /\ [][NextSample]_vars

\* C1: for Uniform and AreaWeighted, every index list of length >= 3 and every
\* sequence of draws, generate_point_cloud returns exactly point_count points.
C1_ExactCount ==
    gen.path = "triangles" => Len(gen.points) = config.point_count

\* a sampled normal is NaN: the blend of zero-padded normals, normalized
NaNNormalSampled ==
    \E i \in 1 .. Len(gen.points) : gen.points[i].normal = Vec3(NaN, NaN, NaN)

\* the attribute a point built from vertex i (0-based) must carry: arr[i] when
\* the array is present and the attribute is requested, nothing otherwise
ExpectedAttr(arr, requested, i) ==
    IF arr # <<>> /\ requested THEN arr[i + 1] ELSE None

\* scale * v, component by component
Scaled(v, scale) ==
    <<(v[1] * scale) \div ONE, (v[2] * scale) \div ONE, (v[3] * scale) \div ONE>>

\* C2: under Vertices the output has exactly min(point_count, vertex_count)
\* points, point i is scale * vertices[i] with the normal and colour of the
\* same index i when present and requested, and no random value is drawn.
C2_VerticesInOrder ==
    gen.path = "vertices" =>
        /\ Len(gen.points) = Min2(config.point_count, Len(mesh.vertices))
        /\ gen.rng = <<>>
        /\ \A i \in 1 .. Len(gen.points) :
              /\ gen.points[i].position = Scaled(mesh.vertices[i], config.scale)
              /\ gen.points[i].normal =
                     ExpectedAttr(mesh.normals, config.include_normals, i - 1)
              /\ gen.points[i].color =
                     ExpectedAttr(mesh.colors, config.include_colors, i - 1)

C2_Witness ==
    /\ gen.path = "vertices"
    /\ config.point_count > Len(mesh.vertices)
    /\ Len(gen.points) >= 1
    /\ config.scale # ONE
    /\ IsSome(gen.points[1].normal)
    /\ gen.points[1].color = None

\* C3: with fewer than 3 indices, Uniform and AreaWeighted return exactly
\* point_count points, each built from the drawn vertex index idx: with
\* jitter = 0 at scale * vertices[idx], with normals[idx] / colors[idx] when
\* present and requested.
C3_FallbackPerVertex ==
    gen.path = "fallback" =>
        /\ Len(gen.points) = config.point_count
        /\ \A k \in 1 .. Len(gen.points) :
              LET idx == gen.rng[k].idx
              IN  /\ idx \in 0 .. (Len(mesh.vertices) - 1)
                  /\ config.jitter = 0 =>
                        gen.points[k].position = Scaled(mesh.vertices[idx + 1], config.scale)
                  /\ gen.points[k].normal =
                         ExpectedAttr(mesh.normals, config.include_normals, idx)
                  /\ gen.points[k].color =
                         ExpectedAttr(mesh.colors, config.include_colors, idx)

C3_Witness ==
    /\ gen.path = "fallback"
    /\ Len(mesh.indices) = 2
    /\ config.jitter = 0
    /\ config.scale # ONE
    /\ Len(gen.points) = 2
    /\ gen.rng[1].idx = 2
    /\ gen.rng[2].idx = 0
    /\ IsSome(gen.points[1].normal)
    /\ IsSome(gen.points[1].color)

\* the chunk a triangle iteration with draw d selects
SelectedChunk(m, cfg, d) ==
    LET triangles == Chunks3(m.indices)
    IN  At(triangles,
           SelectTriangle(TriangleWeights(triangles, m.vertices, cfg.sampling_strategy),
                          d.sel))

\* the draws of the iterations that push a point: all of them in the fallback
\* path, those that select a full triangle in the triangle path
RECURSIVE PushingDraws(_, _, _)
PushingDraws(m, cfg, draws) ==
    IF draws = <<>> THEN <<>>
    ELSE (IF Len(m.indices) < 3 \/ Len(SelectedChunk(m, cfg, Head(draws))) = 3
          THEN <<Head(draws)>> ELSE <<>>)
         \o PushingDraws(m, cfg, Tail(draws))

\* the sampled position before jitter and scale: v0*a + v1*b + v2*c with
\* a = 1 - sqrt(r1), b = sqrt(r1)(1 - r2), c = sqrt(r1) r2 in the triangle
\* path, vertices[idx] in the fallback path
SampledBase(m, cfg, d) ==
    IF Len(m.indices) < 3 THEN m.vertices[d.idx + 1]
    ELSE LET tri == SelectedChunk(m, cfg, d)
             s   == ISqrt(d.bary[1] * ONE)
             a   == ONE - s
             b   == (s * (ONE - d.bary[2])) \div ONE
             c   == (s * d.bary[2]) \div ONE
         IN  [x \in 1 .. 3 |->
                 ((m.vertices[tri[1] + 1][x] * a) \div ONE)
               + ((m.vertices[tri[2] + 1][x] * b) \div ONE)
               + ((m.vertices[tri[3] + 1][x] * c) \div ONE)]

\* jitter * 0.1
JitterAmount(jitter) == (jitter * (ONE \div 10)) \div ONE

\* the noise the draws u in [0, 1) of one iteration give: uniform in
\* [-jitter*0.1, jitter*0.1) on each axis, zero when nothing was drawn
NoiseOf(jitter, u) ==
    IF u = <<>> THEN <<0, 0, 0>>
    ELSE [x \in 1 .. 3 |->
             ((2 * JitterAmount(jitter) * u[x]) \div ONE) - JitterAmount(jitter)]

Abs(x) == IF x < 0 THEN 0 - x ELSE x

\* C14: in the triangle path and in the fallback path alike the output
\* position is scale * (base + n), with base the sampled position and n a
\* per-axis noise with |n| <= jitter * 0.1; when jitter = 0 the noise is zero
\* and no random value is drawn for it.
C14_JitterBeforeScale ==
    gen.path \in {"triangles", "fallback"} =>
        LET used == PushingDraws(mesh, config, gen.rng)
        IN  /\ Len(gen.points) = Len(used)
            /\ \A k \in 1 .. Len(used) :
                  LET n    == NoiseOf(config.jitter, used[k].noise)
                      base == SampledBase(mesh, config, used[k])
                  IN  /\ gen.points[k].position =
                            Scaled(<<base[1] + n[1], base[2] + n[2], base[3] + n[3]>>,
                                   config.scale)
                      /\ \A x \in 1 .. 3 : Abs(n[x]) <= JitterAmount(config.jitter)
                      /\ config.jitter = 0 => (used[k].noise = <<>> /\ n = <<0, 0, 0>>)
                      /\ config.jitter > 0 => Len(used[k].noise) = 3

C14_Witness ==
    /\ gen.path = "triangles"
    /\ config.jitter = ONE \div 2
    /\ config.scale = 2 * ONE
    /\ Len(gen.points) = 2
    /\ NoiseOf(config.jitter, gen.rng[1].noise) = <<25, 0 - 50, 0>>
    /\ gen.points[1].position # Scaled(SampledBase(mesh, config, gen.rng[1]), config.scale)

----------------------------------------------------------------------------
(* The point cloud aggregate: PointCloud::new on any list of points, then  *)
(* save_to_file and load_from_file.                                        *)

MaxPoints == 2

Positions == {Vec3(0 - ONE, 2 * ONE, 0), Vec3(0, 0, 0), Vec3(ONE, ONE, 3 * ONE)}

\* a unit normal, and the normal VNormalize gives a zero blend
NormalValues == {None, Vec3(0, 0, ONE), Vec3(NaN, NaN, NaN)}

ColorValues == {None, Vec3(ONE, ONE \div 2, 0)}

PointUniverse == [position : Positions, normal : NormalValues, color : ColorValues]

PointLists == UNION {[1 .. n -> PointUniverse] : n \in 0 .. MaxPoints}

SourceFile == "model.glb"

InitCloud ==
    /\ \E pts \in PointLists : gen = [path |-> "given", points |-> pts, rng |-> <<>>]
    /\ config = ConfigDefault /\ mesh = NoMesh
    /\ cloud = NoCloud /\ disk = NoDisk
    /\ loaded = NoLoad /\ builder = NoBuilder /\ fs = NoFs
    /\ document = NoDocument /\ select = NoSelect /\ octree = NoOctree
    /\ pc = "sampled"

New ==
    /\ pc = "sampled"
    /\ cloud' = PointCloud_new(gen.points, SourceFile)
    /\ pc' = "built"
    /\ UNCHANGED <<config, mesh, gen, disk, loaded, builder, fs, document, select, octree>>

\* save_to_file: the document is written, or std::fs::write fails
Save ==
    /\ pc = "built"
    /\ \/ /\ disk' = [written |-> TRUE, doc |-> SerializeCloud(cloud)]
          /\ pc' = "saved"
       \/ /\ disk' = disk
          /\ pc' = "save_failed"
    /\ UNCHANGED <<config, mesh, gen, cloud, loaded, builder, fs, document, select, octree>>

\* load_from_file: read_to_string fails, from_str fails, or the cloud is read
Load ==
    /\ pc = "saved"
    /\ \/ loaded' = [state |-> "io_error"]
       \/ /\ ~CloudReads(disk.doc)
          /\ loaded' = [state |-> "serialization_error"]
       \/ /\ CloudReads(disk.doc)
          /\ loaded' = [state |-> "ok", value |-> DeserializeCloud(disk.doc)]
    /\ pc' = "loaded"
    /\ UNCHANGED <<config, mesh, gen, cloud, disk, builder, fs, document, select, octree>>

NextCloud == New \/ Save \/ Load

SpecCloud == InitCloud /\ [][NextCloud]_vars

AxisValues(points, c) == {points[i].position[c] : i \in 1 .. Len(points)}

IsLeast(x, S) == x \in S /\ \A y \in S : x <= y
IsGreatest(x, S) == x \in S /\ \A y \in S : x >= y

\* C8: PointCloud::new gives point_count = the number of points, bounds = the
\* component-wise minimum / maximum of the positions ([0,0,0] / [0,0,0] for
\* no points), has_normals / has_colors true iff some point carries the
\* attribute, and stores the points unchanged in the same order.
C8_MetadataFromPoints ==
    cloud.built =>
        /\ cloud.points = gen.points
        /\ cloud.metadata.point_count = Len(gen.points)
        /\ gen.points = <<>> =>
              cloud.metadata.bounds_min = <<0, 0, 0>> /\ cloud.metadata.bounds_max = <<0, 0, 0>>
        /\ gen.points # <<>> =>
              \A c \in 1 .. 3 :
                 /\ IsLeast(cloud.metadata.bounds_min[c], AxisValues(gen.points, c))
                 /\ IsGreatest(cloud.metadata.bounds_max[c], AxisValues(gen.points, c))
        /\ cloud.metadata.has_normals <=> (\E i \in 1 .. Len(gen.points) : gen.points[i].normal # None)
        /\ cloud.metadata.has_colors <=> (\E i \in 1 .. Len(gen.points) : gen.points[i].color # None)
        /\ ~cloud.metadata.has_normals => \A i \in 1 .. Len(cloud.points) : cloud.points[i].normal = None
        /\ ~cloud.metadata.has_colors => \A i \in 1 .. Len(cloud.points) : cloud.points[i].color = None

C8_Witness ==
    /\ cloud.built
    /\ Len(cloud.points) = 2
    /\ cloud.metadata.bounds_min \notin {cloud.points[1].position, cloud.points[2].position}
    /\ cloud.metadata.bounds_max \notin {cloud.points[1].position, cloud.points[2].position}
    /\ cloud.metadata.has_normals
    /\ cloud.points[1].normal = None
    /\ ~cloud.metadata.has_colors

\* C9: for every cloud X built by PointCloud::new, load_from_file of the file
\* save_to_file(X) wrote returns a cloud equal to X.
C9_RoundTrip ==
    (pc = "loaded" /\ loaded.state # "io_error") =>
        (loaded.state = "ok" /\ loaded.value = cloud)

----------------------------------------------------------------------------
(* The tile writer: EptBuilder::build on a cloud built by PointCloud::new, *)
(* one action per filesystem step, each of which can fail.                 *)

\* (1.0, 0.5, 0.0) and (0.999, 0.2, 1.0)
EptColorValues == ColorValues \cup {Vec3(ONE - 1, ONE \div 5, ONE)}

EptPointUniverse ==
    [position : Positions, normal : {None, Vec3(0, 0, ONE)}, color : EptColorValues]

FourPoints ==
    << PointNew(Vec3(0, 0, 0)), PointNew(Vec3(ONE, 0, 0)),
       PointNew(Vec3(0, ONE, 0)), PointNew(Vec3(0, 0, ONE)) >>

EptPointLists ==
    UNION {[1 .. n -> EptPointUniverse] : n \in 0 .. MaxPoints} \cup {FourPoints}

Builders ==
    { EptBuilder_new,
      with_max_depth(with_max_points_per_tile(EptBuilder_new, 1), 0) }

InitEpt ==
    /\ \E pts \in EptPointLists :
          /\ gen = [path |-> "given", points |-> pts, rng |-> <<>>]
          /\ cloud = PointCloud_new(pts, SourceFile)
    /\ builder \in Builders
    /\ config = ConfigDefault /\ mesh = NoMesh
    /\ disk = NoDisk /\ loaded = NoLoad
    /\ fs = NoFs
    /\ document = NoDocument /\ select = NoSelect /\ octree = NoOctree
    /\ pc = "ready"

JsonFile(doc) == [kind |-> "json", complete |-> TRUE, doc |-> doc]
TruncatedJsonFile == [kind |-> "json", complete |-> FALSE]
BinFile(fields, complete) == [kind |-> "bin", complete |-> complete, fields |-> fields]

\* lines 143-145: create_dir_all three times; the first failure returns
BuildCreateDirs ==
    /\ pc = "ready"
    /\ \/ /\ fs' = [fs EXCEPT !.dirs = @ \cup {BuildDirs[i] : i \in 1 .. 3}]
          /\ pc' = "dirs_created"
       \/ \E k \in 0 .. 2 :
             /\ fs' = [fs EXCEPT !.dirs = @ \cup {BuildDirs[i] : i \in 1 .. k}]
             /\ pc' = "failed_dirs"
    /\ UNCHANGED <<config, mesh, gen, cloud, disk, loaded, builder, document, select, octree>>

\* lines 148-226: bounds, schema, metadata, std::fs::write of ept.json
BuildWriteMetadata ==
    /\ pc = "dirs_created"
    /\ \/ \E bounds \in EptBounds(cloud.points) :
             /\ fs' = [fs EXCEPT !.files =
                          WriteFile(@, EptJsonPath, JsonFile(EptJson(EptMetadata(cloud, bounds))))]
             /\ pc' = "metadata_written"
       \/ /\ fs' = fs
          /\ pc' = "failed_metadata"
       \/ /\ fs' = [fs EXCEPT !.files = WriteFile(@, EptJsonPath, TruncatedJsonFile)]
          /\ pc' = "failed_metadata"
    /\ UNCHANGED <<config, mesh, gen, cloud, disk, loaded, builder, document, select, octree>>

\* BuildWriteTile going on to the hierarchy although a write failed
BuildWriteTileSwallowingError ==
    /\ pc = "metadata_written"
    /\ LET bytes == TileBytes(TileData(cloud), Len(cloud.points))
       IN  \/ fs' = [fs EXCEPT !.files = WriteFile(@, TilePath, BinFile(bytes, TRUE))]
           \/ \E k \in 0 .. (Len(bytes) - 1) :
                 fs' = [fs EXCEPT !.files =
                           WriteFile(@, TilePath, BinFile(SubSeq(bytes, 1, k), FALSE))]
    /\ pc' = "tile_written"
    /\ UNCHANGED <<config, mesh, gen, cloud, disk, loaded, builder, document, select, octree>>

\* lines 273-326 and write_binary_tile: File::create, then one write_all per
\* field; the first failure returns and leaves what was written
BuildWriteTile ==
    /\ pc = "metadata_written"
    /\ LET bytes == TileBytes(TileData(cloud), Len(cloud.points))
       IN  \/ /\ fs' = [fs EXCEPT !.files = WriteFile(@, TilePath, BinFile(bytes, TRUE))]
              /\ pc' = "tile_written"
           \/ /\ fs' = fs
              /\ pc' = "failed_tile"
           \/ \E k \in 0 .. (Len(bytes) - 1) :
                 /\ fs' = [fs EXCEPT !.files =
                              WriteFile(@, TilePath, BinFile(SubSeq(bytes, 1, k), FALSE))]
                 /\ pc' = "failed_tile"
    /\ UNCHANGED <<config, mesh, gen, cloud, disk, loaded, builder, document, select, octree>>

\* lines 329-336: the hierarchy index, then Ok(())
BuildWriteHierarchy ==
    /\ pc = "tile_written"
    /\ \/ /\ fs' = [fs EXCEPT !.files =
                       WriteFile(@, HierarchyPath, JsonFile(Hierarchy(builder, cloud)))]
          /\ pc' = "done"
       \/ /\ fs' = fs
          /\ pc' = "failed_hierarchy"
       \/ /\ fs' = [fs EXCEPT !.files = WriteFile(@, HierarchyPath, TruncatedJsonFile)]
          /\ pc' = "failed_hierarchy"
    /\ UNCHANGED <<config, mesh, gen, cloud, disk, loaded, builder, document, select, octree>>

NextEpt == BuildCreateDirs \/ BuildWriteMetadata \/ BuildWriteTile \/ BuildWriteHierarchy

SpecEpt == InitEpt /\ [][NextEpt]_vars

Written(path) == path \in DOMAIN fs.files /\ fs.files[path].complete
Absent(path) == path \notin DOMAIN fs.files

\* the fields of record i of a tile whose records hold len fields each
RecordOf(fields, i, len) == SubSeq(fields, (i - 1) * len + 1, i * len)

\* C4: after build succeeds on N points the output holds exactly one tile,
\* ept-data/0-0-0-0.bin, with one record per point in array order; the
\* hierarchy file has exactly one entry, "0-0-0-0" -> N; ept.json's points is N.
C4_CountsAgree ==
    pc = "done" =>
        LET N    == Len(cloud.points)
            tile == fs.files["ept-data/0-0-0-0.bin"].fields
            len  == Len(fs.files["ept.json"].doc.schema)
        IN  /\ {p \in DOMAIN fs.files : fs.files[p].kind = "bin"} = {"ept-data/0-0-0-0.bin"}
            /\ Len(tile) = N * len
            /\ \A i \in 1 .. N :
                  \A c \in 1 .. 3 : RecordOf(tile, i, len)[c].v = cloud.points[i].position[c]
            /\ DOMAIN fs.files["ept-hierarchy/0-0-0-0.json"].doc = {"0-0-0-0"}
            /\ fs.files["ept-hierarchy/0-0-0-0.json"].doc["0-0-0-0"] = N
            /\ fs.files["ept.json"].doc.points = N

C4_Witness ==
    /\ pc = "done"
    /\ Len(cloud.points) = 2
    /\ cloud.points[1].position # cloud.points[2].position
    /\ builder.max_points_per_tile < Len(cloud.points)

SchemaNames(schema) == [i \in 1 .. Len(schema) |-> schema[i].name]

FieldMatches(field, dim) ==
    /\ field.size = dim.size
    /\ (field.ty = "f32" /\ dim.type = "floating") \/ (field.ty = "u8" /\ dim.type = "unsigned")

FlagBytes(flag, n) == IF flag THEN n ELSE 0

\* C5: the schema in ept.json and every record of the tile list the same
\* fields in the same order: X,Y,Z (4 bytes each), then Red,Green,Blue (1 byte
\* each) iff has_colors, then NormalX,NormalY,NormalZ (4 bytes each) iff
\* has_normals; the tile is N * (12 + 3*[has_colors] + 12*[has_normals]) bytes.
C5_SchemaMatchesTile ==
    Written(TilePath) =>
        LET schema == fs.files[EptJsonPath].doc.schema
            tile   == fs.files[TilePath].fields
            md     == cloud.metadata
            N      == Len(cloud.points)
        IN  /\ SchemaNames(schema) =
                   <<"X", "Y", "Z">>
                   \o (IF md.has_colors THEN <<"Red", "Green", "Blue">> ELSE <<>>)
                   \o (IF md.has_normals THEN <<"NormalX", "NormalY", "NormalZ">> ELSE <<>>)
            /\ \A j \in 1 .. Len(schema) :
                  IF schema[j].name \in {"Red", "Green", "Blue"}
                  THEN schema[j].type = "unsigned" /\ schema[j].size = 1
                  ELSE schema[j].type = "floating" /\ schema[j].size = 4
            /\ Len(tile) = N * Len(schema)
            /\ \A i \in 1 .. N : \A j \in 1 .. Len(schema) :
                  FieldMatches(RecordOf(tile, i, Len(schema))[j], schema[j])
            /\ SumSeq([k \in 1 .. Len(tile) |-> tile[k].size])
                  = N * (12 + FlagBytes(md.has_colors, 3) + FlagBytes(md.has_normals, 12))
            /\ SumSeq([k \in 1 .. Len(tile) |-> tile[k].size])
                  = N * SumSeq([j \in 1 .. Len(schema) |-> schema[j].size])

C5_Witness ==
    /\ Written(TilePath)
    /\ Len(cloud.points) = 2
    /\ cloud.metadata.has_colors
    /\ cloud.points[2].color = None
    /\ cloud.metadata.has_normals
    /\ cloud.points[1].normal = None

AllDirs == {BuildDirs[i] : i \in 1 .. 3}

\* C6: build creates the three directories, writes ept.json, writes the tile
\* and writes the hierarchy index in that order; a failing step ends the build
\* at once (no later step runs, nothing is retried; what was written before
\* may remain); success means all three files have been written.
C6_StepsInOrder ==
    /\ pc = "ready" => fs = NoFs
    /\ pc = "failed_dirs" => fs.dirs # AllDirs /\ DOMAIN fs.files = {}
    /\ pc = "dirs_created" => fs.dirs = AllDirs /\ DOMAIN fs.files = {}
    /\ pc = "failed_metadata" =>
          /\ fs.dirs = AllDirs
          /\ ~Written(EptJsonPath) /\ Absent(TilePath) /\ Absent(HierarchyPath)
    /\ pc = "metadata_written" =>
          /\ fs.dirs = AllDirs
          /\ Written(EptJsonPath) /\ Absent(TilePath) /\ Absent(HierarchyPath)
    /\ pc = "failed_tile" =>
          /\ fs.dirs = AllDirs
          /\ Written(EptJsonPath) /\ ~Written(TilePath) /\ Absent(HierarchyPath)
    /\ pc = "tile_written" =>
          /\ fs.dirs = AllDirs
          /\ Written(EptJsonPath) /\ Written(TilePath) /\ Absent(HierarchyPath)
    /\ pc = "failed_hierarchy" =>
          /\ fs.dirs = AllDirs
          /\ Written(EptJsonPath) /\ Written(TilePath) /\ ~Written(HierarchyPath)
    /\ pc = "done" =>
          /\ fs.dirs = AllDirs
          /\ Written(EptJsonPath) /\ Written(TilePath) /\ Written(HierarchyPath)
    /\ pc \in {"failed_dirs", "failed_metadata", "failed_tile", "failed_hierarchy", "done"}
          => ~ENABLED NextEpt

C6_Witness ==
    /\ pc = "failed_tile"
    /\ TilePath \in DOMAIN fs.files
    /\ Len(fs.files[TilePath].fields) = 4

IsFloorOf255(b, component) ==
    /\ b * ONE <= component * 255
    /\ component * 255 < (b + 1) * ONE

\* C15: with has_colors set, each colour byte of a point with a colour is
\* floor(component * 255) for a component in [0,1] (1.0 gives 255, 0.999 gives
\* 254) and lies in 0..255, and a point without a colour is written as
\* (255,255,255); with has_normals set, a point without a normal is written as
\* (0,0,0); when a flag is not set no bytes of that attribute are written.
C15_ColorBytesTruncated ==
    Written(TilePath) =>
        LET md   == cloud.metadata
            tile == fs.files[TilePath].fields
            N    == Len(cloud.points)
            len  == 3 + FlagBytes(md.has_colors, 3) + FlagBytes(md.has_normals, 3)
            nrm  == 3 + FlagBytes(md.has_colors, 3)
        IN  /\ Len(tile) = N * len
            /\ \A i \in 1 .. N :
                  LET rec   == RecordOf(tile, i, len)
                      point == cloud.points[i]
                  IN  /\ md.has_colors =>
                            \A c \in 1 .. 3 :
                               /\ rec[3 + c].ty = "u8"
                               /\ rec[3 + c].v \in 0 .. 255
                               /\ point.color = None => rec[3 + c].v = 255
                               /\ (point.color # None /\ point.color[c] \in 0 .. ONE) =>
                                     /\ IsFloorOf255(rec[3 + c].v, point.color[c])
                                     /\ point.color[c] = ONE => rec[3 + c].v = 255
                                     /\ point.color[c] = ONE - 1 => rec[3 + c].v = 254
                      /\ ~md.has_colors => \A j \in 1 .. len : rec[j].ty # "u8"
                      /\ md.has_normals =>
                            \A c \in 1 .. 3 :
                               /\ rec[nrm + c].ty = "f32"
                               /\ point.normal = None => rec[nrm + c].v = 0
                               /\ point.normal # None => rec[nrm + c].v = point.normal[c]
                      /\ ~md.has_normals =>
                            /\ len = nrm
                            /\ \A j \in 4 .. len : rec[j].ty = "u8"

C15_Witness ==
    /\ Written(TilePath)
    /\ Len(cloud.points) = 2
    /\ cloud.points[1].color = Vec3(ONE - 1, ONE \div 5, ONE)
    /\ cloud.points[2].color = None
    /\ cloud.points[1].normal = None
    /\ cloud.metadata.has_normals
    /\ fs.files[TilePath].fields[4].v = 254
    /\ fs.files[TilePath].fields[5].v = 51
    /\ fs.files[TilePath].fields[6].v = 255

----------------------------------------------------------------------------
(* The octree key algebra: children() called once on a key made by         *)
(* OctreeKey::new or OctreeKey::root.  A build with overflow checks (the   *)
(* dev profile) panics where an operation leaves u32; a build without them *)
(* (the release profile) wraps.                                            *)

\* 0 .. 3, 40000, 2^31 - 1, 2^31 and u32::MAX
CoordValues ==
    {U32(0), U32(1), U32(2), U32(3), U32(40000),
     <<(Half \div 2) - 1, Half - 1>>, <<Half \div 2, 0>>, U32_MAX}

DepthValues == {U32(0), U32(1), <<Half - 1, Half - 2>>, U32_MAX}

OctreeKeys ==
    {OctreeKey_root} \cup
    {OctreeKey_new(d, x, y, z) : d \in DepthValues, x \in CoordValues,
                                y \in CoordValues, z \in CoordValues}

InitOctree ==
    /\ \E k \in OctreeKeys, checks \in BOOLEAN :
          octree = [state |-> "new", key |-> k, overflow_checks |-> checks,
                    overflowed |-> FALSE, children |-> <<>>]
    /\ config = ConfigDefault /\ mesh = NoMesh /\ gen = NoGen
    /\ cloud = NoCloud /\ disk = NoDisk /\ loaded = NoLoad
    /\ builder = NoBuilder /\ fs = NoFs
    /\ document = NoDocument /\ select = NoSelect
    /\ pc = "key"

CallChildren ==
    /\ pc = "key"
    /\ \/ /\ ChildrenOverflows(octree.key) /\ octree.overflow_checks
          /\ octree' = [octree EXCEPT !.state = "panicked", !.overflowed = TRUE]
       \/ /\ ~(ChildrenOverflows(octree.key) /\ octree.overflow_checks)
          /\ octree' = [octree EXCEPT !.state = "returned",
                                      !.overflowed = ChildrenOverflows(octree.key),
                                      !.children = Children(octree.key)]
    /\ pc' = "children_called"
    /\ UNCHANGED <<config, mesh, gen, cloud, disk, loaded, builder, fs, document, select>>

NextOctree == CallChildren

SpecOctree == InitOctree /\ [][NextOctree]_vars

\* a \div 2 of a u32
U32Div2(a) == <<a[1] \div 2, (a[2] \div 2) + (a[1] % 2) * (Half \div 2)>>

\* c = 2 * k + bit as numbers
IsDoublePlus(c, k, bit) == c[2] % 2 = bit /\ U32Div2(c) = k

\* d1 = d + 1 as numbers
IsSuccessor(d1, d) ==
    /\ d # U32_MAX
    /\ d1 = IF d[2] = Half - 1 THEN <<d[1] + 1, 0>> ELSE <<d[1], d[2] + 1>>

\* the eight keys are the children of k in the fixed order: child i (from 0)
\* adds bit 0 of i to 2x, bit 1 to 2y and bit 2 to 2z
InFixedOrder(children, k) ==
    /\ Len(children) = 8
    /\ \A i \in 0 .. 7 :
          /\ IsSuccessor(children[i + 1].depth, k.depth)
          /\ IsDoublePlus(children[i + 1].x, k.x, i % 2)
          /\ IsDoublePlus(children[i + 1].y, k.y, (i \div 2) % 2)
          /\ IsDoublePlus(children[i + 1].z, k.z, i \div 4)

ExampleKey == OctreeKey_new(U32(1), U32(2), U32(3), U32(3))

ExampleChildren ==
    << OctreeKey_new(U32(2), U32(4), U32(6), U32(6)),
       OctreeKey_new(U32(2), U32(5), U32(6), U32(6)),
       OctreeKey_new(U32(2), U32(4), U32(7), U32(6)),
       OctreeKey_new(U32(2), U32(5), U32(7), U32(6)),
       OctreeKey_new(U32(2), U32(4), U32(6), U32(7)),
       OctreeKey_new(U32(2), U32(5), U32(6), U32(7)),
       OctreeKey_new(U32(2), U32(4), U32(7), U32(7)),
       OctreeKey_new(U32(2), U32(5), U32(7), U32(7)) >>

\* depth + 1 and the doubled coordinates fit in u32
InRange(k) ==
    /\ k.depth # U32_MAX
    /\ k.x[1] < Half \div 2 /\ k.y[1] < Half \div 2 /\ k.z[1] < Half \div 2

\* C11 as stated: for every OctreeKey (d,x,y,z), children() returns exactly 8
\* keys, all at depth d+1, in the fixed order (2x,2y,2z), (2x+1,2y,2z),
\* (2x,2y+1,2z), (2x+1,2y+1,2z), (2x,2y,2z+1), (2x+1,2y,2z+1), (2x,2y+1,2z+1),
\* (2x+1,2y+1,2z+1), e.g. the children of (1,2,3,3), and leaves the key as it
\* was.
C11_ChildrenInOrder_AllKeys ==
    [][ pc' = "children_called" =>
          /\ octree'.state = "returned"
          /\ octree'.key = octree.key
          /\ InFixedOrder(octree'.children, octree.key)
          /\ octree.key = ExampleKey => octree'.children = ExampleChildren ]_vars

\* C11 amended: the same for every OctreeKey with depth < u32::MAX and
\* x, y, z < 2^31.
C11_ChildrenInOrder ==
    [][ (pc' = "children_called" /\ InRange(octree.key)) =>
          /\ octree'.state = "returned"
          /\ octree'.key = octree.key
          /\ InFixedOrder(octree'.children, octree.key)
          /\ octree.key = ExampleKey => octree'.children = ExampleChildren ]_vars

C11_Witness ==
    /\ pc = "children_called"
    /\ octree.key = ExampleKey
    /\ octree.state = "returned"
    /\ octree.children[2].x = U32(5)
    /\ octree.children[7].x = U32(4)

\* c is a child of k: one level deeper, its coordinates halved are k's
HasParent(c, k) ==
    /\ IsSuccessor(c.depth, k.depth)
    /\ U32Div2(c.x) = k.x /\ U32Div2(c.y) = k.y /\ U32Div2(c.z) = k.z

PairwiseDistinct(children) ==
    \A i \in 1 .. Len(children), j \in 1 .. Len(children) :
       i # j => children[i] # children[j]

\* C17 as stated: for every OctreeKey k whose depth, x, y and z are arbitrary
\* u32 values, children() computes without arithmetic overflow, the 8 children
\* are pairwise distinct and each child has k as its parent (so that two keys
\* of one depth never share a child).
C17_ChildrenOfAnyKey ==
    pc = "children_called" =>
        /\ ~octree.overflowed
        /\ octree.state = "returned"
        /\ Len(octree.children) = 8
        /\ PairwiseDistinct(octree.children)
        /\ \A i \in 1 .. 8 : HasParent(octree.children[i], octree.key)

\* C17 amended: the same for every OctreeKey k with depth < u32::MAX and
\* x, y, z < 2^31.
C17_ChildrenOfKeyInRange ==
    (pc = "children_called" /\ InRange(octree.key)) =>
        /\ ~octree.overflowed
        /\ octree.state = "returned"
        /\ Len(octree.children) = 8
        /\ PairwiseDistinct(octree.children)
        /\ \A i \in 1 .. 8 : HasParent(octree.children[i], octree.key)

\* the largest key in range: depth u32::MAX - 1, x = y = z = 2^31 - 1
C17_Witness ==
    /\ pc = "children_called"
    /\ octree.overflow_checks
    /\ octree.key.depth = <<Half - 1, Half - 2>>
    /\ octree.key.x = <<(Half \div 2) - 1, Half - 1>>
    /\ octree.key.y = octree.key.x /\ octree.key.z = octree.key.x
    /\ octree.state = "returned"
    /\ octree.children[8].depth = U32_MAX
    /\ octree.children[8].x = U32_MAX

----------------------------------------------------------------------------
(* The triangle selection of generate_point_cloud, lines 160-175: one draw *)
(* and one scan over the weights of any triangle list.                     *)

MaxTris == 3

\* 1.0 is the weight under Uniform; an area is any value >= 0, and 0 for a
\* degenerate triangle or a partial chunk
WeightValues == {0, ONE \div 2, ONE, 3 * ONE}

WeightLists == UNION {[1 .. n -> WeightValues] : n \in 1 .. MaxTris}

\* rng.gen::<f32>(), a value in [0, 1)
SelectDraws ==
    {0, 1, ONE \div 4, ONE \div 3, ONE \div 2, (2 * ONE) \div 3, ONE - 1}

InitSelect ==
    /\ \E w \in WeightLists, u \in SelectDraws :
          select = [state |-> "drawn", triangle_weights |-> w, u |-> u]
    /\ config = ConfigDefault /\ mesh = NoMesh /\ gen = NoGen
    /\ cloud = NoCloud /\ disk = NoDisk /\ loaded = NoLoad
    /\ builder = NoBuilder /\ fs = NoFs
    /\ document = NoDocument /\ octree = NoOctree
    /\ pc = "select"

\* lines 164-173: weight_select = u * total_weight, then the scan
Select ==
    /\ pc = "select"
    /\ select' = [ state            |-> "selected",
                   triangle_weights |-> select.triangle_weights,
                   u                |-> select.u,
                   weight_select    |-> FMul(select.u, SumSeq(select.triangle_weights)),
                   selected_tri     |-> SelectTriangle(select.triangle_weights, select.u) ]
    /\ pc' = "selected"
    /\ UNCHANGED <<config, mesh, gen, cloud, disk, loaded, builder, fs, document, octree>>

NextSelect == Select

SpecSelect == InitSelect /\ [][NextSelect]_vars

\* w[0] + ... + w[i] for a 0-based i
Cumulative(w, i) == SumSeq(SubSeq(w, 1, i + 1))

\* C12: for a draw d in [0, total_weight) with total_weight > 0 the scan
\* selects the smallest index i whose cumulative weight w[0]+...+w[i] is
\* >= d (what a prefix-sum search gives); the selected index is always a valid
\* triangle index; when total_weight is 0 every draw selects triangle 0.
C12_SelectsByCumulativeWeight ==
    select.state = "selected" =>
        LET w     == select.triangle_weights
            d     == select.weight_select
            i     == select.selected_tri
            total == Cumulative(w, Len(w) - 1)
        IN  /\ i \in 0 .. (Len(w) - 1)
            /\ total > 0 =>
                  /\ 0 <= d /\ d < total
                  /\ Cumulative(w, i) >= d
                  /\ \A j \in 0 .. (i - 1) : Cumulative(w, j) < d
            /\ total = 0 => i = 0

\* a draw that meets a cumulative weight exactly, behind a zero weight
C12_Witness ==
    /\ select.state = "selected"
    /\ select.triangle_weights = <<0, ONE, ONE>>
    /\ select.weight_select = ONE
    /\ select.selected_tri = 1

----------------------------------------------------------------------------
(* load_from_file on any file: a JSON document with a "points" array and a *)
(* "metadata" object, written by save_to_file or by anything else.         *)

MaxDocPoints == 2

\* the point objects of a document; a normal of three nulls does not read
DocPoints ==
    { SerializePoint([position |-> p, normal |-> n, color |-> c]) :
        p \in {Vec3(0, 0, 0), Vec3(ONE, ONE, 3 * ONE)},
        n \in NormalValues,
        c \in ColorValues }

DocPointLists == UNION {[1 .. n -> DocPoints] : n \in 0 .. MaxDocPoints}

\* the metadata object of a document: every field holds a value of its type
DocMetadata ==
    { SerializeMetadata([ point_count |-> n, bounds_min |-> lo, bounds_max |-> hi,
                          source_file |-> SourceFile,
                          has_normals |-> hn, has_colors |-> hc ]) :
        n \in 0 .. (MaxDocPoints + 1),
        lo \in {Vec3(0, 0, 0), Vec3(0 - ONE, 2 * ONE, 0)},
        hi \in {Vec3(0, 0, 0), Vec3(ONE, ONE, 3 * ONE)},
        hn \in BOOLEAN, hc \in BOOLEAN }

Documents == [points : DocPointLists, metadata : DocMetadata]

InitLoad ==
    /\ \E doc \in Documents : disk = [written |-> TRUE, doc |-> doc]
    /\ config = ConfigDefault /\ mesh = NoMesh /\ gen = NoGen
    /\ cloud = NoCloud /\ loaded = NoLoad
    /\ builder = NoBuilder /\ fs = NoFs
    /\ document = NoDocument /\ select = NoSelect /\ octree = NoOctree
    /\ pc = "saved"

NextLoad == Load

SpecLoad == InitLoad /\ [][NextLoad]_vars

\* C13: every PointCloud load_from_file returns has metadata that agrees with
\* its points: point_count is the number of points, the bounds are the
\* component-wise min / max of the positions, and has_normals / has_colors are
\* true iff some point carries the attribute.
C13_LoadedMetadataFromPoints ==
    (pc = "loaded" /\ loaded.state = "ok") =>
        LET points == loaded.value.points
            md     == loaded.value.metadata
        IN  /\ md.point_count = Len(points)
            /\ points # <<>> =>
                  \A c \in 1 .. 3 :
                     /\ IsLeast(md.bounds_min[c], AxisValues(points, c))
                     /\ IsGreatest(md.bounds_max[c], AxisValues(points, c))
            /\ md.has_normals <=> (\E i \in 1 .. Len(points) : points[i].normal # None)
            /\ md.has_colors <=> (\E i \in 1 .. Len(points) : points[i].color # None)

----------------------------------------------------------------------------
(* parse_gltf: gltf::import, one step per primitive of the document, the   *)
(* NoMeshData check, generate_point_cloud and PointCloud::new.             *)

MaxPrims == 2

\* a primitive without positions, or one with n vertices and, each present
\* or not, as many normals, as many colours, and three indices below n
Primitives ==
    { [positions |-> NotRead, normals |-> NotRead, colors |-> NotRead,
       indices |-> NotRead] }
    \cup
    { [ positions |-> ReadAs([i \in 1 .. n |-> VertexAt(i - 1)]),
        normals   |-> IF hn THEN ReadAs([i \in 1 .. n |-> NormalAt(i - 1)]) ELSE NotRead,
        colors    |-> IF hc THEN ReadAs([i \in 1 .. n |-> ColorAt(i - 1)]) ELSE NotRead,
        indices   |-> IF hi THEN ReadAs([k \in 1 .. 3 |-> (k - 1) % n]) ELSE NotRead ] :
      n \in 1 .. 2, hn \in BOOLEAN, hc \in BOOLEAN, hi \in BOOLEAN }

GltfDocuments == UNION {[1 .. n -> Primitives] : n \in 0 .. MaxPrims}

ParseConfigs ==
    { with_colors(with_normals(with_strategy(ConfigNew(1), st), inn), inc) :
      st \in Strategies, inn \in BOOLEAN, inc \in BOOLEAN }

InitParse ==
    /\ config \in ParseConfigs
    /\ \E prims \in GltfDocuments : document = [primitives |-> prims, next |-> 1]
    /\ mesh = NoMesh /\ gen = NoGen /\ cloud = NoCloud /\ disk = NoDisk
    /\ loaded = NoLoad /\ builder = NoBuilder /\ fs = NoFs
    /\ select = NoSelect /\ octree = NoOctree
    /\ pc = "start"

\* line 31: gltf::import(path)?, then the four empty vectors
Import ==
    /\ pc = "start"
    /\ pc' \in {"reading", "import_failed"}
    /\ UNCHANGED <<config, mesh, gen, cloud, disk, loaded, builder, fs, document, select, octree>>

\* lines 39-74: one turn of the loop over the primitives
ReadPrimitive ==
    /\ pc = "reading"
    /\ document.next <= Len(document.primitives)
    /\ mesh' = ReadInto(mesh, document.primitives[document.next], config)
    /\ document' = [document EXCEPT !.next = @ + 1]
    /\ pc' = "reading"
    /\ UNCHANGED <<config, gen, cloud, disk, loaded, builder, fs, select, octree>>

\* lines 76-78: Err(NoMeshData), or on to generate_point_cloud
CheckVertices ==
    /\ pc = "reading"
    /\ document.next > Len(document.primitives)
    /\ pc' = IF mesh.vertices = <<>> THEN "no_mesh_data" ELSE "parsed"
    /\ UNCHANGED <<config, mesh, gen, cloud, disk, loaded, builder, fs, document, select, octree>>

\* lines 89-95: Ok(PointCloud::new(points, source_file))
ParseNew ==
    /\ pc = "generated"
    /\ cloud' = PointCloud_new(gen.points, SourceFile)
    /\ pc' = "parse_ok"
    /\ UNCHANGED <<config, mesh, gen, disk, loaded, builder, fs, document, select, octree>>

NextParse ==
    \/ Import \/ ReadPrimitive \/ CheckVertices
    \/ GenerateVertices \/ GenerateTriangles \/ GenerateFallback
    \/ ParseNew

SpecParse == InitParse /\ [][NextParse]_vars

\* the number of vertices of the primitives before primitive k
RECURSIVE VerticesBefore(_, _)
VerticesBefore(prims, k) ==
    IF k <= 1 THEN 0
    ELSE VerticesBefore(prims, k - 1)
         + (IF prims[k - 1].positions.some THEN Len(prims[k - 1].positions.v) ELSE 0)

\* the local indices of primitives 1 .. k, each plus the number of vertices
\* before its primitive
RECURSIVE OffsetIndices(_, _)
OffsetIndices(prims, k) ==
    IF k = 0 THEN <<>>
    ELSE OffsetIndices(prims, k - 1)
         \o (IF prims[k].positions.some /\ prims[k].indices.some
              THEN [j \in 1 .. Len(prims[k].indices.v) |->
                       prims[k].indices.v[j] + VerticesBefore(prims, k)]
              ELSE <<>>)

\* the slots of primitive k in a combined attribute array hold the
\* primitive's values, or the filler when it has none
SlotsHold(arr, prims, k, field, filler) ==
    prims[k].positions.some =>
        \A j \in 1 .. Len(prims[k].positions.v) :
           arr[VerticesBefore(prims, k) + j] =
               IF prims[k][field].some THEN prims[k][field].v[j] ELSE filler

\* C16: after any sequence of primitives has been accumulated, every combined
\* index is the primitive's local index plus the number of vertices
\* accumulated before that primitive, and a valid position in the vertex array;
\* the normals array is empty when include_normals is false and otherwise as
\* long as the vertex array (zero vectors for primitives lacking normals); the
\* colors array likewise (white); with no vertex accumulated the result is
\* NoMeshData and sampling never runs.
C16_CombinedArrays ==
    LET prims == SubSeq(document.primitives, 1, document.next - 1)
        nv    == Len(mesh.vertices)
    IN  /\ nv = VerticesBefore(prims, Len(prims) + 1)
        /\ mesh.indices = OffsetIndices(prims, Len(prims))
        /\ \A k \in 1 .. Len(mesh.indices) : mesh.indices[k] \in 0 .. (nv - 1)
        /\ ~config.include_normals => mesh.normals = <<>>
        /\ config.include_normals =>
              /\ Len(mesh.normals) = nv
              /\ \A k \in 1 .. Len(prims) : SlotsHold(mesh.normals, prims, k, "normals", VZero)
        /\ ~config.include_colors => mesh.colors = <<>>
        /\ config.include_colors =>
              /\ Len(mesh.colors) = nv
              /\ \A k \in 1 .. Len(prims) :
                    SlotsHold(mesh.colors, prims, k, "colors", Vec3(ONE, ONE, ONE))
        /\ pc = "no_mesh_data" => (nv = 0 /\ ~ENABLED NextParse)
        /\ nv = 0 => (gen = NoGen /\ cloud = NoCloud /\ pc \notin {"parsed", "generated", "parse_ok"})
        /\ pc \in {"parsed", "generated", "parse_ok"} =>
              (nv > 0 /\ document.next = Len(document.primitives) + 1)

C16_Witness ==
    /\ pc = "parse_ok"
    /\ config.include_normals /\ config.include_colors
    /\ Len(document.primitives) = 2
    /\ mesh.indices = <<2, 3, 2>>
    /\ Len(mesh.normals) = 4
    /\ mesh.normals[1] # VZero
    /\ mesh.normals[3] = VZero /\ mesh.normals[4] = VZero
    /\ mesh.colors[1] = Vec3(ONE, ONE, ONE)
    /\ mesh.colors[3] # Vec3(ONE, ONE, ONE)

====
